---- MODULE Spec2Model ----
(***************************************************************************)
(* pyRockBlock: the RockBlock AT-command driver (pyRockBlock.py) as a      *)
(* state machine.  One driver object talks to one modem over a serial      *)
(* line.  A public method is started by its own action when the driver is  *)
(* idle, runs up to its first line read, and is resumed once per line it   *)
(* reads.  The modem is the environment: each write makes it append one of *)
(* a few replies to the serial input buffer rx.                            *)
(***************************************************************************)
EXTENDS Integers, Sequences, FiniteSets, TLC

(* ------------------------------ bounds --------------------------------- *)
\* most calls a caller starts on one connection while lines of earlier
\* answers are still unread in the serial input buffer
MaxStale == 0
\* most empty reads (timeouts, blank lines) in a row that are followed
MaxPolls == 2

\* the largest MO and MT status codes the decoded payloads carry
MaxMoStatusCode == 66
MaxMtStatusCode == 3

(* ------------------------- program constants --------------------------- *)
\* get_iridium_datetime(self, retry=5)
DefaultRetry == 5
\* queue_text: len(message) <= 120
MaxTextLen == 120
\* queue_bytes: 1 > len(message) > 340
MinBytesLen == 1
MaxBytesLen == 340

(* ------------------------------ strings -------------------------------- *)
Char(str, i) == SubSeq(str, i, i)

SetMin(S) == CHOOSE x \in S : \A y \in S : x <= y
SetMax(S) == CHOOSE x \in S : \A y \in S : x >= y

\* str * n
RECURSIVE Rep(_, _)
Rep(c, n) ==
    IF n <= 0 THEN ""
    ELSE IF n = 1 THEN c
    ELSE Rep(c, n \div 2) \o Rep(c, n - (n \div 2))

Digits == "0123456789"
Upper == "ABCDEFGHIJKLMNOPQRSTUVWXYZ"
Lower == "abcdefghijklmnopqrstuvwxyz"
HexLower == "0123456789abcdef"
HexUpper == "0123456789ABCDEF"

\* str.find(c) + 1 for a one-character c; 0 when absent
IndexIn(str, c) ==
    LET I == {i \in 1..Len(str) : Char(str, i) = c}
    IN  IF I = {} THEN 0 ELSE SetMin(I)

IsWhitespace(c) == c \in {" ", "\t", "\r", "\n"}

\* str.strip()
strip(str) ==
    LET I == {i \in 1..Len(str) : ~IsWhitespace(Char(str, i))}
    IN  IF I = {} THEN "" ELSE SubSeq(str, SetMin(I), SetMax(I))

\* the places where sep starts in str
Occurrences(str, sep) ==
    {i \in 1..(Len(str) - Len(sep) + 1) : SubSeq(str, i, i + Len(sep) - 1) = sep}

\* the k-th smallest element of a set of numbers
Kth(S, k) == CHOOSE x \in S : Cardinality({y \in S : y < x}) = k - 1

\* str.split(sep): every piece, for a separator that cannot overlap itself
split(str, sep) ==
    LET P == Occurrences(str, sep)
        n == Cardinality(P)
        from(k) == IF k = 1 THEN 1 ELSE Kth(P, k - 1) + Len(sep)
        to(k) == IF k = n + 1 THEN Len(str) ELSE Kth(P, k) - 1
    IN  [k \in 1..(n + 1) |-> SubSeq(str, from(k), to(k))]

\* str.split(sep, 1): at most one split
split1(str, sep) ==
    LET P == Occurrences(str, sep)
    IN  IF P = {} THEN <<str>>
        ELSE <<SubSeq(str, 1, SetMin(P) - 1),
               SubSeq(str, SetMin(P) + Len(sep), Len(str))>>

\* "".join(parts)
RECURSIVE join(_)
join(parts) == IF parts = <<>> THEN "" ELSE Head(parts) \o join(Tail(parts))

\* str.replace(" ", "")
RemoveSpaces(str) == join(split(str, " "))

AllIn(str, alphabet) ==
    /\ Len(str) > 0
    /\ \A i \in 1..Len(str) : IndexIn(alphabet, Char(str, i)) > 0

\* the number a string of digits of the given base denotes
RECURSIVE DigitsValue(_, _, _)
DigitsValue(str, alphabet, base) ==
    IF str = "" THEN 0
    ELSE DigitsValue(SubSeq(str, 1, Len(str) - 1), alphabet, base) * base
         + (IndexIn(alphabet, Char(str, Len(str))) - 1)

Unsigned(str) ==
    IF Len(str) > 0 /\ Char(str, 1) \in {"+", "-"}
    THEN SubSeq(str, 2, Len(str)) ELSE str

\* int(str): whether it parses (surrounding whitespace and a sign allowed)
IsInt(str) == AllIn(Unsigned(strip(str)), Digits)

\* int(str), when it parses
int(str) ==
    LET t == strip(str)
        v == DigitsValue(Unsigned(t), Digits, 10)
    IN  IF Char(t, 1) = "-" THEN 0 - v ELSE v

ToLower(c) ==
    IF IndexIn(HexUpper, c) > 0 THEN Char(HexLower, IndexIn(HexUpper, c)) ELSE c

\* int(str, 16): whether it parses (hexadecimal digits of either case)
IsHex(str) ==
    /\ Len(str) > 0
    /\ \A i \in 1..Len(str) : IndexIn(HexLower, ToLower(Char(str, i))) > 0

\* int(str, 16), when it parses
RECURSIVE hex(_)
hex(str) ==
    IF str = "" THEN 0
    ELSE hex(SubSeq(str, 1, Len(str) - 1)) * 16
         + (IndexIn(HexLower, ToLower(Char(str, Len(str)))) - 1)

\* ord(c), for the characters the model uses.  The module is kept in ASCII:
\* "^" stands for U+00E9 and "~" for U+00FF, the two characters above
\* U+007F that the messages of the model contain.
ord(c) ==
    CASE c = "\t" -> 9
      [] c = "\n" -> 10
      [] c = "\r" -> 13
      [] c = " " -> 32
      [] c = "*" -> 42
      [] c = "+" -> 43
      [] c = "," -> 44
      [] c = "-" -> 45
      [] c = ":" -> 58
      [] c = "=" -> 61
      [] c = "^" -> 233
      [] c = "~" -> 255
      [] IndexIn(Digits, c) > 0 -> 47 + IndexIn(Digits, c)
      [] IndexIn(Upper, c) > 0 -> 64 + IndexIn(Upper, c)
      [] IndexIn(Lower, c) > 0 -> 96 + IndexIn(Lower, c)

\* the UTF-8 encoding of one code point below 0x800
utf8(cp) ==
    IF cp < 128 THEN <<cp>>
    ELSE <<192 + (cp \div 64), 128 + (cp % 64)>>

\* str.encode(): bytes of str[lo..hi]
RECURSIVE encodeRange(_, _, _)
encodeRange(str, lo, hi) ==
    IF lo > hi THEN <<>>
    ELSE IF lo = hi THEN utf8(ord(Char(str, lo)))
    ELSE encodeRange(str, lo, (lo + hi) \div 2)
         \o encodeRange(str, ((lo + hi) \div 2) + 1, hi)

encode(str) == encodeRange(str, 1, Len(str))

(* ------------------------------- state --------------------------------- *)
VARIABLES
    s,          \* self.s: the Serial handle, "None" or "open"
    _imei,      \* self._imei: <<>> for None, <<value>> once cached
    _modem,     \* self._modem: <<>> for None, <<value>> once cached
    rx,         \* the serial input buffer: raw lines the modem has sent
    pc,         \* "idle", or the line read the running call waits at
    op,         \* the public method running, or the last one that ran
    cmd,        \* the command of the running exchange
    message,    \* the message argument of queue_text / queue_bytes / send_text
    retry,      \* get_iridium_datetime's retry argument
    local,      \* the line a method keeps in a local across later reads
    written,    \* what the call passed to Serial.write, in order
    got,        \* the lines the call has read, in order
    sleeps,     \* time.sleep(1) calls of the call
    polls,      \* empty results of _read() in a row
    stale,      \* calls started on this connection with unread lines in rx
    at_disconnect, \* self._imei and self._modem as the last disconnect() found them
    outcome     \* how the call ended: return value or exception

vars == <<s, _imei, _modem, rx, pc, op, cmd, message, retry, local,
          written, got, sleeps, polls, stale, at_disconnect, outcome>>

None == <<>>
Some(v) == <<v>>

NoOutcome == [kind |-> "none", val |-> <<"None">>, exc |-> "", msg |-> ""]
Returned(v) == [kind |-> "return", val |-> v, exc |-> "", msg |-> ""]
Raised(e, m) == [kind |-> "raise", val |-> <<"None">>, exc |-> e, msg |-> m]

PyNone == <<"None">>
PyBool(b) == <<"bool", b>>
PyStr(str) == <<"str", str>>
PyInt(n) == <<"int", n>>

(* ------------------------------ the modem ------------------------------ *)
\* the modem echoes the command line, then starts its answer on a new line
Echo(command) == command \o "\r\r\n"
OKLine == "OK\r\n"
ErrorLine == "ERROR\r\n"
BlankLine == "\r\n"
GarbledLine == "A\r\r\n"

\* the answers the driver's methods are written for
Expected(kind, command) ==
    CASE kind = "AT" -> {<<Echo(command), OKLine>>, <<Echo(command), BlankLine, OKLine>>}
      [] kind = "CSQ" -> {<<Echo(command), "+CSQ:3\r\n", OKLine>>}
      [] kind = "CGSN" -> {<<Echo(command), "300234010753370\r\n", OKLine>>}
      [] kind = "CGMM" -> {<<Echo(command), "IRIDIUM 9600 Family\r\n", OKLine>>}
      [] kind = "MSSTM" -> {<<Echo(command), "-MSSTM: 1a2B\r\n", OKLine>>,
                            <<Echo(command), "-MSSTM: no network service\r\n", OKLine>>}
      [] kind = "SBDWT" -> {<<Echo(command), OKLine>>}
      [] kind = "SBDWB" -> {<<Echo(command), "READY\r\n">>}
      [] kind = "SBDIX" -> {<<Echo(command), "+SBDIX: 0, 14, 1, 3, 20, 0\r\n", OKLine>>,
                            <<Echo(command), "+SBDIX: 32, 15, 2, 0, 0\r\n", OKLine>>,
                            <<Echo(command), "+SBDIX: 0, 14, 1, 3, 20, 0, 9\r\n", OKLine>>,
                            <<Echo(command), "+SBDIX: 0, 14, 1, 3, x, 0\r\n", OKLine>>,
                            <<Echo(command), "+SBDIX: 0, 14, 3, 3, 20, 0\r\n", OKLine>>}
      [] kind = "SBDRB" -> {<<command \o "\rLLhelloCC\r\n", OKLine>>}
      [] kind = "SBDRT" -> {<<Echo(command), "+SBDRT:\r\n", OKLine>>}
      [] kind = "R" -> {<<Echo(command), OKLine>>}
      [] kind = "GEMON=" -> {<<Echo(command), OKLine>>}
      [] kind = "GEMON" -> {<<Echo(command), "+GEMON:1234\r\n", OKLine>>}
      [] kind = "SBDD" -> {<<Echo(command), "0\r\n", OKLine>>,
                           <<Echo(command), "1\r\n", OKLine>>}
      [] kind = "SBDS" -> {<<Echo(command), "+SBDS: 1, 5, 0, -1\r\n", OKLine>>}

\* an answer with its final OK replaced by ERROR
Refused(r) ==
    IF r[Len(r)] = OKLine THEN SubSeq(r, 1, Len(r) - 1) \o <<ErrorLine>> ELSE r

\* what the modem may answer to a command of each kind: nothing, the echo
\* and ERROR, an expected answer, an expected answer whose echo line arrives
\* garbled, or one that ends in ERROR instead of OK; the binary payload of
\* queue_bytes ("DATA") is not echoed
Replies(kind, command) ==
    IF kind = "DATA"
    THEN {<<>>, <<"0\r\n", OKLine>>, <<"2\r\n", OKLine>>}
    ELSE {<<>>, <<Echo(command), ErrorLine>>}
         \cup Expected(kind, command)
         \cup {<<GarbledLine>> \o Tail(r) : r \in Expected(kind, command)}
         \cup {Refused(r) : r \in Expected(kind, command)}

\* the input buffer after the modem has reacted to a write
Answered(buf, kind, command) == {buf \o r : r \in Replies(kind, command)}

(* --------------------------- line protocol ----------------------------- *)
\* _read(): self.s.readline().decode().strip(); b"" after a timeout
_read(buf) == IF buf = <<>> THEN "" ELSE strip(Head(buf))

\* write(command): self.s.write(command.encode())
write(command) == [text |-> command, raw |-> <<>>]

\* write_line(command)
write_line(command) == write(command \o "\r")

\* a call is waiting for a line
Reading == pc # "idle"

\* write_line_echo(command): the line read after the write is the command
write_line_echo(command, line) == line = command

\* the bytes one write put on the line
BytesOf(w) == encode(w.text) \o w.raw


\* a read_next that gives up with an error at the first timeout
read_next_raises ==
    /\ Reading
    /\ pc # "read_bytes:output"
    /\ _read(rx) = ""
    /\ polls < MaxPolls
    /\ polls' = polls + 1
    /\ rx' = IF rx = <<>> THEN rx ELSE Tail(rx)
    /\ IF rx = <<>>
       THEN pc' = "idle" /\ outcome' = Raised("SerialTimeoutException", "read timed out")
       ELSE UNCHANGED <<pc, outcome>>
    /\ UNCHANGED <<s, stale, _imei, _modem, op, cmd, message, retry, local,
                   written, got, sleeps>>
    /\ UNCHANGED at_disconnect

\* read_next(): an empty _read() result is discarded and the read repeated
read_next ==
    /\ Reading
    /\ pc # "read_bytes:output"
    /\ _read(rx) = ""
    /\ polls < MaxPolls
    /\ polls' = polls + 1
    /\ rx' = IF rx = <<>> THEN rx ELSE Tail(rx)
    /\ UNCHANGED <<s, stale, _imei, _modem, pc, op, cmd, message, retry, local,
                   written, got, sleeps, outcome>>
    /\ UNCHANGED at_disconnect

\* read_next() returns: the next non-empty line is there
HasLine == _read(rx) # ""
Line == _read(rx)

(* ------------------------------ connection ----------------------------- *)
\* a call starts: the bookkeeping of the previous call is dropped
Begin(name) ==
    /\ pc = "idle"
    /\ op' = name
    /\ sleeps' = 0
    /\ polls' = 0
    /\ got' = <<>>

\* read_next() returns the line to the waiting call
Consume ==
    /\ HasLine
    /\ got' = Append(got, Line)
    /\ polls' = 0

\* the call ends
Finish(o) == pc' = "idle" /\ outcome' = o

\* the call goes on to its next line read
Goto(label) == pc' = label /\ outcome' = NoOutcome

\* the first write of a call: self.s.write fails on None, else the command
\* goes out and the modem reacts
Send(kind, command, label) ==
    /\ cmd' = command
    /\ IF s = "None"
       THEN /\ Finish(Raised("AttributeError", "NoneType.write"))
            /\ written' = <<>>
            /\ UNCHANGED <<rx, stale>>
       ELSE /\ Goto(label)
            /\ written' = <<write_line(command)>>
            /\ rx' \in Answered(rx, kind, command)
            /\ rx = <<>> \/ stale < MaxStale
            /\ stale' = IF rx = <<>> THEN stale ELSE stale + 1

\* check_serial_connection() without its test for a missing handle
check_serial_connection_body_unguarded(handle, buf) ==
    IF handle = "None"
    THEN /\ Finish(Raised("AttributeError", "NoneType.flush"))
         /\ written' = <<>>
         /\ rx' = buf
         /\ cmd' = ""
    ELSE /\ Goto("check_serial_connection:echo")
         /\ written' = <<write_line("AT")>>
         /\ rx' \in Answered(buf, "AT", "AT")
         /\ cmd' = "AT"

\* check_serial_connection(), from its first statement to the first read
check_serial_connection_body(handle, buf) ==
    IF handle = "None"
    THEN /\ Finish(Returned(PyBool(FALSE)))
         /\ written' = <<>>
         /\ rx' = buf
         /\ cmd' = ""
    ELSE /\ Goto("check_serial_connection:echo")
         /\ written' = <<write_line("AT")>>
         /\ rx' \in Answered(buf, "AT", "AT")
         /\ cmd' = "AT"

check_serial_connection ==
    /\ Begin("check_serial_connection")
    /\ check_serial_connection_body(s, rx)
    /\ rx = <<>> \/ stale < MaxStale
    /\ stale' = IF rx = <<>> THEN stale ELSE stale + 1
    /\ message' = ""
    /\ local' = ""
    /\ UNCHANGED <<s, _imei, _modem, retry>>
    /\ UNCHANGED at_disconnect

\* a handshake that raises when the echo or the OK is wrong
check_serial_connection_resume_raises ==
    /\ pc \in {"check_serial_connection:echo", "check_serial_connection:ok"}
    /\ Consume
    /\ rx' = Tail(rx)
    /\ IF pc = "check_serial_connection:echo"
       THEN IF write_line_echo(cmd, Line)
            THEN Goto("check_serial_connection:ok")
            ELSE Finish(Raised("RockBlockException", "handshake"))
       ELSE IF Line = "OK"
            THEN Finish(Returned(PyBool(TRUE)))
            ELSE Finish(Raised("RockBlockException", "handshake"))
    /\ UNCHANGED <<s, stale, _imei, _modem, op, cmd, message, retry, local,
                   written, sleeps>>
    /\ UNCHANGED at_disconnect

\* the rest of check_serial_connection, called directly or by connect
check_serial_connection_resume ==
    /\ pc \in {"check_serial_connection:echo", "check_serial_connection:ok"}
    /\ Consume
    /\ rx' = Tail(rx)
    /\ IF pc = "check_serial_connection:echo"
       THEN IF write_line_echo(cmd, Line)
            THEN Goto("check_serial_connection:ok")
            ELSE Finish(Returned(PyBool(FALSE)))
       ELSE Finish(Returned(PyBool(Line = "OK")))
    /\ UNCHANGED <<s, stale, _imei, _modem, op, cmd, message, retry, local,
                   written, sleeps>>
    /\ UNCHANGED at_disconnect

\* connect(): Serial(...) raises SerialException, or opens the port with an
\* empty input buffer and the handshake follows
connect ==
    /\ Begin("connect")
    /\ message' = ""
    /\ local' = ""
    /\ \/ /\ Finish(Raised("RockBlockException", "SerialException"))
          /\ written' = <<>>
          /\ cmd' = ""
          /\ UNCHANGED <<s, rx, stale>>
       \/ /\ s' = "open"
          /\ stale' = 0
          /\ check_serial_connection_body("open", <<>>)
    /\ UNCHANGED <<_imei, _modem, retry>>
    /\ UNCHANGED at_disconnect

\* disconnect()
\* disconnect() that also forgets the cached IMEI and modem model
disconnect_clearing ==
    /\ Begin("disconnect")
    /\ message' = ""
    /\ local' = ""
    /\ cmd' = ""
    /\ written' = <<>>
    /\ IF s = "None"
       THEN /\ Finish(Raised("AttributeError", "NoneType.close"))
            /\ UNCHANGED <<s, rx, stale, at_disconnect, _imei, _modem>>
       ELSE /\ Finish(Returned(PyNone))
            /\ s' = "None"
            /\ rx' = <<>>
            /\ stale' = 0
            /\ at_disconnect' = [imei |-> _imei, modem |-> _modem]
            /\ _imei' = None
            /\ _modem' = None
    /\ UNCHANGED retry

disconnect ==
    /\ Begin("disconnect")
    /\ message' = ""
    /\ local' = ""
    /\ cmd' = ""
    /\ written' = <<>>
    /\ IF s = "None"
       THEN /\ Finish(Raised("AttributeError", "NoneType.close"))
            /\ UNCHANGED <<s, rx, stale, at_disconnect>>
       ELSE /\ Finish(Returned(PyNone))
            /\ s' = "None"
            /\ rx' = <<>>
            /\ stale' = 0
            /\ at_disconnect' = [imei |-> _imei, modem |-> _modem]
    /\ UNCHANGED <<_imei, _modem, retry>>

(* ------------------------------- queries ------------------------------- *)
\* signal_quality
signal_quality ==
    /\ Begin("signal_quality")
    /\ Send("CSQ", "AT+CSQ", "signal_quality:echo")
    /\ message' = ""
    /\ local' = ""
    /\ UNCHANGED <<s, _imei, _modem, retry>>
    /\ UNCHANGED at_disconnect

signal_quality_resume ==
    /\ pc \in {"signal_quality:echo", "signal_quality:output"}
    /\ Consume
    /\ rx' = Tail(rx)
    /\ IF pc = "signal_quality:echo"
       THEN IF write_line_echo(cmd, Line)
            THEN Goto("signal_quality:output")
            ELSE Finish(Raised("RockBlockException",
                               "Exception getting signal quality, unexpected Serial state"))
       ELSE IF IsInt(Char(Line, Len(Line)))
            THEN Finish(Returned(PyInt(int(Char(Line, Len(Line))))))
            ELSE Finish(Raised("ValueError", "int"))
    /\ UNCHANGED <<s, stale, _imei, _modem, op, cmd, message, retry, local,
                   written, sleeps>>
    /\ UNCHANGED at_disconnect

\* imei
imei ==
    /\ Begin("imei")
    /\ message' = ""
    /\ local' = ""
    /\ IF _imei = None
       THEN Send("CGSN", "AT+CGSN", "imei:echo")
       ELSE /\ Finish(Returned(PyStr(_imei[1])))
            /\ written' = <<>>
            /\ cmd' = ""
            /\ UNCHANGED <<rx, stale>>
    /\ UNCHANGED <<s, _imei, _modem, retry>>
    /\ UNCHANGED at_disconnect

\* the rest of imei with the assignment to self._imei left out
imei_resume_uncached ==
    /\ pc \in {"imei:echo", "imei:imei", "imei:ok"}
    /\ Consume
    /\ rx' = Tail(rx)
    /\ CASE pc = "imei:echo" ->
              Goto("imei:imei") /\ UNCHANGED local
         [] pc = "imei:imei" ->
              Goto("imei:ok") /\ local' = Line
         [] pc = "imei:ok" ->
              IF Line = "OK"
              THEN Finish(Returned(PyStr(local))) /\ UNCHANGED local
              ELSE Finish(Returned(PyNone)) /\ UNCHANGED local
    /\ UNCHANGED <<s, stale, _imei, _modem, op, cmd, message, retry, written,
                   sleeps>>
    /\ UNCHANGED at_disconnect

imei_resume ==
    /\ pc \in {"imei:echo", "imei:imei", "imei:ok"}
    /\ Consume
    /\ rx' = Tail(rx)
    /\ CASE pc = "imei:echo" ->
              Goto("imei:imei") /\ UNCHANGED <<local, _imei>>
         [] pc = "imei:imei" ->
              Goto("imei:ok") /\ local' = Line /\ UNCHANGED _imei
         [] pc = "imei:ok" ->
              IF Line = "OK"
              THEN /\ _imei' = Some(local)
                   /\ Finish(Returned(PyStr(local)))
                   /\ UNCHANGED local
              ELSE /\ Finish(Returned(PyNone))
                   /\ UNCHANGED <<local, _imei>>
    /\ UNCHANGED <<s, stale, _modem, op, cmd, message, retry, written, sleeps>>
    /\ UNCHANGED at_disconnect

\* modem
modem ==
    /\ Begin("modem")
    /\ message' = ""
    /\ local' = ""
    /\ IF _modem = None
       THEN Send("CGMM", "AT+CGMM", "modem:echo")
       ELSE /\ Finish(Returned(PyStr(_modem[1])))
            /\ written' = <<>>
            /\ cmd' = ""
            /\ UNCHANGED <<rx, stale>>
    /\ UNCHANGED <<s, _imei, _modem, retry>>
    /\ UNCHANGED at_disconnect

modem_resume ==
    /\ pc \in {"modem:echo", "modem:modem", "modem:ok"}
    /\ Consume
    /\ rx' = Tail(rx)
    /\ CASE pc = "modem:echo" ->
              Goto("modem:modem") /\ UNCHANGED <<local, _modem>>
         [] pc = "modem:modem" ->
              Goto("modem:ok") /\ local' = Line /\ UNCHANGED _modem
         [] pc = "modem:ok" ->
              IF Line = "OK"
              THEN /\ _modem' = Some(local)
                   /\ Finish(Returned(PyStr(local)))
                   /\ UNCHANGED local
              ELSE /\ Finish(Returned(PyNone))
                   /\ UNCHANGED <<local, _modem>>
    /\ UNCHANGED <<s, stale, _imei, op, cmd, message, retry, written, sleeps>>
    /\ UNCHANGED at_disconnect

\* the ticks taken for milliseconds
PyDatetime_unscaled(ticks) == <<"datetime", ticks>>

\* the datetime IRIDIUM_EPOCH + timedelta(milliseconds=ticks * 90), as its
\* distance from IRIDIUM_EPOCH in milliseconds
PyDatetime(ticks) == <<"datetime", ticks * 90>>

\* the retry test with the budget counted one short
MayRetry_one_short(r) == r > 1

\* the retry test that never grants a retry
MayRetry_never(r) == r < 0

\* if retry > 0
MayRetry(r) == r > 0

\* get_iridium_datetime(retry=5)
get_iridium_datetime ==
    /\ Begin("get_iridium_datetime")
    /\ retry' = DefaultRetry
    /\ Send("MSSTM", "AT-MSSTM", "get_iridium_datetime:echo")
    /\ message' = ""
    /\ local' = ""
    /\ UNCHANGED <<s, _imei, _modem>>
    /\ UNCHANGED at_disconnect

get_iridium_datetime_resume ==
    /\ pc \in {"get_iridium_datetime:echo", "get_iridium_datetime:response",
               "get_iridium_datetime:discard"}
    /\ Consume
    /\ CASE pc = "get_iridium_datetime:echo" ->
              /\ IF write_line_echo(cmd, Line)
                 THEN Goto("get_iridium_datetime:response")
                 ELSE Finish(Raised("RockBlockException",
                                    "Exception getting system time, unexpected Serial state"))
              /\ rx' = Tail(rx)
              /\ UNCHANGED <<retry, written, sleeps>>
         [] pc = "get_iridium_datetime:response" ->
              /\ LET parts == split1(Line, " ")
                 IN  IF Len(parts) # 2
                     THEN Finish(Raised("ValueError", "unpack"))
                     ELSE IF parts[2] = "no network service"
                     THEN Goto("get_iridium_datetime:discard")
                     ELSE IF IsHex(parts[2])
                     THEN Finish(Returned(PyDatetime(hex(parts[2]))))
                     ELSE Finish(Raised("ValueError", "int"))
              /\ rx' = Tail(rx)
              /\ UNCHANGED <<retry, written, sleeps>>
         [] pc = "get_iridium_datetime:discard" ->
              IF MayRetry(retry)
              THEN /\ sleeps' = sleeps + 1
                   /\ retry' = retry - 1
                   /\ written' = Append(written, write_line("AT-MSSTM"))
                   /\ rx' \in Answered(Tail(rx), "MSSTM", "AT-MSSTM")
                   /\ Goto("get_iridium_datetime:echo")
              ELSE /\ Finish(Raised("RockBlockSignalException",
                                    "Could not get system time due to no signal"))
                   /\ rx' = Tail(rx)
                   /\ UNCHANGED <<retry, written, sleeps>>
    /\ UNCHANGED <<s, stale, _imei, _modem, op, cmd, message, local>>
    /\ UNCHANGED at_disconnect

(* ------------------------------ decoders ------------------------------- *)
Failed(e) == [ok |-> FALSE, exc |-> e]
Built(v) == [ok |-> TRUE, exc |-> "", value |-> v]

\* SessionResponse.__init__(response): the object, or the exception of the
\* first statement that fails
SessionResponse(response) ==
    LET response_values == split(response, ",")
        n == Len(response_values)
    IN  IF ~IsInt(response_values[1]) THEN Failed("ValueError")
        ELSE IF n < 2 THEN Failed("IndexError")
        ELSE IF n < 3 THEN Failed("IndexError")
        ELSE IF ~IsInt(response_values[3]) THEN Failed("ValueError")
        ELSE IF n < 4 THEN Failed("IndexError")
        ELSE IF n < 5 THEN Failed("IndexError")
        ELSE IF ~IsInt(response_values[5]) THEN Failed("ValueError")
        ELSE IF n < 6 THEN Failed("IndexError")
        ELSE IF ~IsInt(response_values[6]) THEN Failed("ValueError")
        ELSE Built([mo_status_code |-> int(response_values[1]),
                    momsn |-> response_values[2],
                    mt_status_code |-> int(response_values[3]),
                    mtmsn |-> response_values[4],
                    mt_length |-> int(response_values[5]),
                    mt_queued |-> int(response_values[6])])

\* SessionResponse.MO_STATUS_CODES
MO_STATUS_CODES ==
    [code \in (0..19) \cup (32..38) \cup {64, 65} |->
        CASE code = 0 -> "MO Success"
          [] code = 1 -> "MO Success, MT too big for transfer"
          [] code = 2 -> "MO Success, location update not accepted"
          [] code = 3 -> "MO Success"
          [] code = 4 -> "MO Success"
          [] code = 5 -> "MO Failure"
          [] code = 6 -> "MO Failure"
          [] code = 7 -> "MO Failure"
          [] code = 8 -> "MO Failure"
          [] code = 9 -> "Unknown"
          [] code = 10 -> "GSS reports call did not complete in allowed time"
          [] code = 11 -> "MO message queue full at GSS"
          [] code = 12 -> "MO message has too many segments"
          [] code = 13 -> "GSS reports session did not complete"
          [] code = 14 -> "Invalid segment size"
          [] code = 15 -> "Access is denied"
          [] code = 16 -> "ISU has been locked and may not make SBD calls"
          [] code = 17 -> "Gateway not responding"
          [] code = 18 -> "Connection lost"
          [] code = 19 -> "Link failure"
          [] code = 32 -> "No network service"
          [] code = 33 -> "Antenna fault"
          [] code = 34 -> "Radio is disabled"
          [] code = 35 -> "ISU is busy"
          [] code = 36 -> "Try later, must wait 3 minutes since last registration"
          [] code = 37 -> "SBD service is temporarily disabled"
          [] code = 38 -> "Try later, traffic management period"
          [] code = 64 -> "Band violation"
          [] code = 65 -> "PLL lock failure, hardware error during attempted transmit"]

\* SessionResponse.MT_STATUS_CODES
MT_STATUS_CODES ==
    [code \in 0..2 |->
        CASE code = 0 -> "No SBD message to receive from the GSS"
          [] code = 1 -> "SBD message successfully received from the GSS"
          [] code = 2 -> "An error occurred while attempting to perform a mailbox check or receive a message from the GSS"]

\* table[code] of a dict: the value, or KeyError for a missing key
Lookup(table, code) ==
    IF code \in DOMAIN table THEN Built(table[code]) ELSE Failed("KeyError")

\* try: <attempt> except <handled>: <fallback>
TryExcept(attempt, handled, fallback) ==
    IF ~attempt.ok /\ attempt.exc = handled THEN Built(fallback) ELSE attempt

\* SessionResponse._get_status_message(code, mo)
_get_status_message(code, mo) ==
    IF mo
    THEN TryExcept(Lookup(MO_STATUS_CODES, code), "IndexError", "Failure (reserved)")
    ELSE Lookup(MT_STATUS_CODES, code)

\* how a status property ends: with its string or its exception
Ending(result) ==
    IF result.ok THEN Returned(PyStr(result.value)) ELSE Raised(result.exc, "")

(* ------------------------------ MO buffer ------------------------------ *)
\* the messages callers pass to queue_text and send_text
TextMessages ==
    {Rep("a", MaxTextLen), Rep("a", MaxTextLen + 1),
     Rep("^", (MaxTextLen \div 2) + 1)}

\* the messages callers pass to queue_bytes
ByteMessages ==
    {"", "ddd", Rep("a", MaxBytesLen), Rep("a", MaxBytesLen + 1),
     Rep("~", MaxBytesLen)}

\* a length test that lets every message through
TextFits_any(m) == TRUE

\* if len(message) <= 120
TextFits(m) == Len(m) <= MaxTextLen

\* queue_text up to its first read; send_text starts the same way
queue_text_body(m) ==
    /\ message' = m
    /\ local' = ""
    /\ IF TextFits(m)
       THEN Send("SBDWT", "AT+SBDWT=" \o m, "queue_text:echo")
       ELSE /\ written' = <<>>
            /\ cmd' = ""
            /\ UNCHANGED <<rx, stale>>
            /\ IF op' = "send_text"
               THEN Finish(Raised("RockBlockException",
                                  "Exception writing text to buffer, unexpected serial state"))
               ELSE Finish(Returned(PyBool(FALSE)))
    /\ UNCHANGED <<s, _imei, _modem, retry>>

\* queue_text(message)
queue_text ==
    /\ Begin("queue_text")
    /\ \E m \in TextMessages : queue_text_body(m)
    /\ UNCHANGED at_disconnect

\* send_text(message)
send_text ==
    /\ Begin("send_text")
    /\ \E m \in TextMessages : queue_text_body(m)
    /\ UNCHANGED at_disconnect

\* the rest of queue_text; within send_text a True result starts
\* initiate_session
queue_text_resume ==
    /\ pc \in {"queue_text:echo", "queue_text:ok"}
    /\ Consume
    /\ IF pc = "queue_text:echo"
       THEN /\ IF write_line_echo(cmd, Line)
               THEN Goto("queue_text:ok")
               ELSE Finish(Raised("RockBlockException", "Exception queueing text"))
            /\ rx' = Tail(rx)
            /\ UNCHANGED <<cmd, written>>
       ELSE IF Line # "OK"
            THEN /\ Finish(Raised("RockBlockException", "Exception queueing text"))
                 /\ rx' = Tail(rx)
                 /\ UNCHANGED <<cmd, written>>
            ELSE IF op = "send_text"
            THEN /\ Goto("initiate_session:echo")
                 /\ cmd' = "AT+SBDIX"
                 /\ written' = Append(written, write_line("AT+SBDIX"))
                 /\ rx' \in Answered(Tail(rx), "SBDIX", "AT+SBDIX")
            ELSE /\ Finish(Returned(PyBool(TRUE)))
                 /\ rx' = Tail(rx)
                 /\ UNCHANGED <<cmd, written>>
    /\ UNCHANGED <<s, stale, _imei, _modem, op, message, retry, local, sleeps>>
    /\ UNCHANGED at_disconnect

\* checksum += ord(c) for c in message[lo..hi]
RECURSIVE checksumRange(_, _, _)
checksumRange(m, lo, hi) ==
    IF lo > hi THEN 0
    ELSE IF lo = hi THEN ord(Char(m, lo))
    ELSE checksumRange(m, lo, (lo + hi) \div 2)
         + checksumRange(m, ((lo + hi) \div 2) + 1, hi)

checksum(m) == checksumRange(m, 1, Len(m))

\* the guard of queue_bytes: 1 > len(message) > 340
InvalidNumberOfBytes(m) == MinBytesLen > Len(m) /\ Len(m) > MaxBytesLen

\* bytes([n]) raises ValueError outside range(0, 256)
IsByte(n) == n >= 0 /\ n < 256

\* queue_bytes(message)
queue_bytes ==
    /\ Begin("queue_bytes")
    /\ \E m \in ByteMessages :
          /\ message' = m
          /\ IF InvalidNumberOfBytes(m)
             THEN /\ Finish(Raised("RockBlockException", "Invalid number of bytes to send"))
                  /\ written' = <<>>
                  /\ cmd' = ""
                  /\ UNCHANGED <<rx, stale>>
             ELSE Send("SBDWB", "AT+SBDWB=" \o ToString(Len(m)), "queue_bytes:echo")
    /\ local' = ""
    /\ UNCHANGED <<s, _imei, _modem, retry>>
    /\ UNCHANGED at_disconnect

queue_bytes_resume ==
    /\ pc \in {"queue_bytes:echo", "queue_bytes:ready", "queue_bytes:result",
               "queue_bytes:ok"}
    /\ Consume
    /\ CASE pc = "queue_bytes:echo" ->
              /\ IF write_line_echo(cmd, Line)
                 THEN Goto("queue_bytes:ready")
                 ELSE Finish(Raised("RockBlockException",
                                    "Exception writing bytes to buffer, unexpected serial state"))
              /\ rx' = Tail(rx)
              /\ UNCHANGED written
         [] pc = "queue_bytes:ready" ->
              IF Line # "READY"
              THEN /\ Finish(Raised("RockBlockException",
                                    "Exception writing bytes to buffer, unexpected serial state"))
                   /\ rx' = Tail(rx)
                   /\ UNCHANGED written
              ELSE IF ~IsByte(checksum(message) \div 256)
              THEN /\ Finish(Raised("ValueError", "bytes must be in range(0, 256)"))
                   /\ rx' = Tail(rx)
                   /\ UNCHANGED written
              ELSE /\ Goto("queue_bytes:result")
                   /\ written' = Append(written,
                          [text |-> message,
                           raw |-> <<checksum(message) \div 256, checksum(message) % 256>>])
                   /\ rx' \in Answered(Tail(rx), "DATA", "")
         [] pc = "queue_bytes:result" ->
              /\ IF Line = "0"
                 THEN Goto("queue_bytes:ok")
                 ELSE Finish(Returned(PyBool(FALSE)))
              /\ rx' = Tail(rx)
              /\ UNCHANGED written
         [] pc = "queue_bytes:ok" ->
              /\ Finish(Returned(PyBool(Line = "OK")))
              /\ rx' = Tail(rx)
              /\ UNCHANGED written
    /\ UNCHANGED <<s, stale, _imei, _modem, op, cmd, message, retry, local, sleeps>>
    /\ UNCHANGED at_disconnect

(* ----------------------------- SBD session ----------------------------- *)
\* initiate_session()
initiate_session ==
    /\ Begin("initiate_session")
    /\ Send("SBDIX", "AT+SBDIX", "initiate_session:echo")
    /\ message' = ""
    /\ local' = ""
    /\ UNCHANGED <<s, _imei, _modem, retry>>
    /\ UNCHANGED at_disconnect

\* the rest of initiate_session, called directly or by send_text
initiate_session_resume ==
    /\ pc \in {"initiate_session:echo", "initiate_session:response",
               "initiate_session:trailer"}
    /\ Consume
    /\ rx' = Tail(rx)
    /\ CASE pc = "initiate_session:echo" ->
              /\ IF write_line_echo(cmd, Line)
                 THEN Goto("initiate_session:response")
                 ELSE Finish(Raised("RockBlockException",
                                    "Exception during SBD session, unexpected serial state"))
              /\ UNCHANGED local
         [] pc = "initiate_session:response" ->
              LET response == split(RemoveSpaces(Line), ":")
              IN  IF Len(response) = 2 /\ response[1] = "+SBDIX"
                  THEN IF SessionResponse(response[2]).ok
                       THEN /\ Goto("initiate_session:trailer")
                            /\ local' = SessionResponse(response[2]).value
                       ELSE /\ Finish(Raised(SessionResponse(response[2]).exc,
                                             "SessionResponse"))
                            /\ UNCHANGED local
                  ELSE /\ Finish(Raised("RockBlockException",
                                        "Exception during SBD session, unexpected serial state"))
                       /\ UNCHANGED local
         [] pc = "initiate_session:trailer" ->
              /\ Finish(Returned(<<"SessionResponse", local>>))
              /\ UNCHANGED local
    /\ UNCHANGED <<s, stale, _imei, _modem, op, cmd, message, retry, written, sleeps>>
    /\ UNCHANGED at_disconnect

(* ------------------------------ MT buffer ------------------------------ *)
\* _read_bytes(): self.s.readline(), the raw line; b"" after a timeout
_read_bytes(buf) == IF buf = <<>> THEN "" ELSE Head(buf)

\* read_bytes(): write_line, no echo read
read_bytes ==
    /\ Begin("read_bytes")
    /\ Send("SBDRB", "AT+SBDRB", "read_bytes:output")
    /\ message' = ""
    /\ local' = ""
    /\ UNCHANGED <<s, _imei, _modem, retry>>
    /\ UNCHANGED at_disconnect

\* output = self._read_bytes()
read_bytes_output ==
    /\ pc = "read_bytes:output"
    /\ local' = _read_bytes(rx)
    /\ got' = Append(got, _read_bytes(rx))
    /\ rx' = IF rx = <<>> THEN rx ELSE Tail(rx)
    /\ Goto("read_bytes:ok")
    /\ UNCHANGED <<s, stale, _imei, _modem, op, cmd, message, retry, written,
                   sleeps, polls>>
    /\ UNCHANGED at_disconnect

read_bytes_resume ==
    /\ pc = "read_bytes:ok"
    /\ Consume
    /\ rx' = Tail(rx)
    /\ IF Line = "OK"
       THEN Finish(Returned(<<"bytes", SubSeq(local, 16, Len(local))>>))
       ELSE Finish(Raised("RockBlockException", "Exception reading bytes from MT buffer"))
    /\ UNCHANGED <<s, stale, _imei, _modem, op, cmd, message, retry, local,
                   written, sleeps>>
    /\ UNCHANGED at_disconnect

\* read_text(): write_line, no echo read
read_text ==
    /\ Begin("read_text")
    /\ Send("SBDRT", "AT+SBDRT", "read_text:output")
    /\ message' = ""
    /\ local' = ""
    /\ UNCHANGED <<s, _imei, _modem, retry>>
    /\ UNCHANGED at_disconnect

read_text_resume ==
    /\ pc \in {"read_text:output", "read_text:second", "read_text:ok"}
    /\ Consume
    /\ rx' = Tail(rx)
    /\ CASE pc = "read_text:output" ->
              Goto("read_text:second") /\ local' = Line
         [] pc = "read_text:second" ->
              Goto("read_text:ok") /\ UNCHANGED local
         [] pc = "read_text:ok" ->
              /\ IF Line = "OK"
                 THEN Finish(Returned(PyStr(SubSeq(local, 9, Len(local)))))
                 ELSE Finish(Raised("RockBlockException",
                                    "Exception reading text from MT buffer"))
              /\ UNCHANGED local
    /\ UNCHANGED <<s, stale, _imei, _modem, op, cmd, message, retry, written, sleeps>>
    /\ UNCHANGED at_disconnect

(* ------------------------------ settings ------------------------------- *)
\* str(int(enabled))
BoolDigit(enabled) == IF enabled THEN "1" ELSE "0"

\* set_radio_activity(enabled)
set_radio_activity ==
    /\ Begin("set_radio_activity")
    /\ \E enabled \in BOOLEAN :
          Send("R", "AT*R" \o BoolDigit(enabled), "set_radio_activity:echo")
    /\ message' = ""
    /\ local' = ""
    /\ UNCHANGED <<s, _imei, _modem, retry>>
    /\ UNCHANGED at_disconnect

set_radio_activity_resume ==
    /\ pc \in {"set_radio_activity:echo", "set_radio_activity:ok"}
    /\ Consume
    /\ rx' = Tail(rx)
    /\ IF pc = "set_radio_activity:echo"
       THEN Goto("set_radio_activity:ok")
       ELSE IF Line = "OK"
            THEN Finish(Returned(PyNone))
            ELSE Finish(Raised("RockBlockException",
                               "Exception attempting to set radio activity"))
    /\ UNCHANGED <<s, stale, _imei, _modem, op, cmd, message, retry, local,
                   written, sleeps>>
    /\ UNCHANGED at_disconnect

\* the energy values callers pass to set_energy_used
EnergyValues == {0, 1234}

\* set_energy_used(energy)
set_energy_used ==
    /\ Begin("set_energy_used")
    /\ \E energy \in EnergyValues :
          Send("GEMON=", "AT+GEMON=" \o ToString(energy), "set_energy_used:echo")
    /\ message' = ""
    /\ local' = ""
    /\ UNCHANGED <<s, _imei, _modem, retry>>
    /\ UNCHANGED at_disconnect

set_energy_used_resume ==
    /\ pc \in {"set_energy_used:echo", "set_energy_used:ok"}
    /\ Consume
    /\ rx' = Tail(rx)
    /\ IF pc = "set_energy_used:echo"
       THEN IF write_line_echo(cmd, Line)
            THEN Goto("set_energy_used:ok")
            ELSE Finish(Raised("RockBlockException", "Failed to set energy used"))
       ELSE IF Line = "OK"
            THEN Finish(Returned(PyNone))
            ELSE Finish(Raised("RockBlockException", "Failed to set energy used"))
    /\ UNCHANGED <<s, stale, _imei, _modem, op, cmd, message, retry, local,
                   written, sleeps>>
    /\ UNCHANGED at_disconnect

\* get_energy_used()
get_energy_used ==
    /\ Begin("get_energy_used")
    /\ Send("GEMON", "AT+GEMON", "get_energy_used:echo")
    /\ message' = ""
    /\ local' = ""
    /\ UNCHANGED <<s, _imei, _modem, retry>>
    /\ UNCHANGED at_disconnect

get_energy_used_resume ==
    /\ pc \in {"get_energy_used:echo", "get_energy_used:response",
               "get_energy_used:ok"}
    /\ Consume
    /\ rx' = Tail(rx)
    /\ CASE pc = "get_energy_used:echo" ->
              /\ IF write_line_echo(cmd, Line)
                 THEN Goto("get_energy_used:response")
                 ELSE Finish(Raised("RockBlockException", "Failed to get energy used"))
              /\ UNCHANGED local
         [] pc = "get_energy_used:response" ->
              Goto("get_energy_used:ok") /\ local' = Line
         [] pc = "get_energy_used:ok" ->
              /\ LET response == split(local, ":")
                 IN  IF Line = "OK" /\ response[1] = "+GEMON"
                     THEN IF Len(response) < 2
                          THEN Finish(Raised("IndexError", "response[1]"))
                          ELSE IF IsInt(response[2])
                          THEN Finish(Returned(PyInt(int(response[2]))))
                          ELSE Finish(Raised("ValueError", "int"))
                     ELSE Finish(Raised("RockBlockException", "Failed to get energy used"))
              /\ UNCHANGED local
    /\ UNCHANGED <<s, stale, _imei, _modem, op, cmd, message, retry, written, sleeps>>
    /\ UNCHANGED at_disconnect

\* BufferClear: MO = 0, MT = 1, MO_MT = 2
\* the selector values numbered from one
BufferClear_from_one == {1, 2, 3}

BufferClear == {0, 1, 2}

\* clear_buffer(clear)
clear_buffer ==
    /\ Begin("clear_buffer")
    /\ \E clear \in BufferClear :
          Send("SBDD", "AT+SBDD" \o ToString(clear), "clear_buffer:echo")
    /\ message' = ""
    /\ local' = ""
    /\ UNCHANGED <<s, _imei, _modem, retry>>
    /\ UNCHANGED at_disconnect

clear_buffer_resume ==
    /\ pc \in {"clear_buffer:echo", "clear_buffer:result", "clear_buffer:ok"}
    /\ Consume
    /\ rx' = Tail(rx)
    /\ CASE pc = "clear_buffer:echo" ->
              IF write_line_echo(cmd, Line)
              THEN Goto("clear_buffer:result")
              ELSE Finish(Raised("RockBlockException", "Failed to clear buffer"))
         [] pc = "clear_buffer:result" ->
              IF Line = "0"
              THEN Goto("clear_buffer:ok")
              ELSE Finish(Raised("RockBlockException", "Failed to clear buffer"))
         [] pc = "clear_buffer:ok" ->
              IF Line = "OK"
              THEN Finish(Returned(PyNone))
              ELSE Finish(Raised("RockBlockException", "Failed to clear buffer"))
    /\ UNCHANGED <<s, stale, _imei, _modem, op, cmd, message, retry, local,
                   written, sleeps>>
    /\ UNCHANGED at_disconnect

\* SbdStatus.__init__(response): the object, or the exception of the first
\* statement that fails
SbdStatus(response) ==
    LET s_response == split(response, ", ")
        n == Len(s_response)
        first == split(s_response[1], " ")
    IN  IF Len(first) < 2 THEN Failed("IndexError")
        ELSE IF ~IsInt(first[2]) THEN Failed("ValueError")
        ELSE IF n < 2 THEN Failed("IndexError")
        ELSE IF ~IsInt(s_response[2]) THEN Failed("ValueError")
        ELSE IF n < 3 THEN Failed("IndexError")
        ELSE IF ~IsInt(s_response[3]) THEN Failed("ValueError")
        ELSE IF n < 4 THEN Failed("IndexError")
        ELSE IF ~IsInt(s_response[4]) THEN Failed("ValueError")
        ELSE Built([buffer_mo |-> int(first[2]) # 0,
                    momsn |-> int(s_response[2]),
                    buffer_mt |-> int(s_response[3]) # 0,
                    mtmsn |-> int(s_response[4])])

\* get_status()
get_status ==
    /\ Begin("get_status")
    /\ Send("SBDS", "AT+SBDS", "get_status:echo")
    /\ message' = ""
    /\ local' = ""
    /\ UNCHANGED <<s, _imei, _modem, retry>>
    /\ UNCHANGED at_disconnect

get_status_resume ==
    /\ pc \in {"get_status:echo", "get_status:status", "get_status:ok"}
    /\ Consume
    /\ rx' = Tail(rx)
    /\ CASE pc = "get_status:echo" ->
              /\ IF write_line_echo(cmd, Line)
                 THEN Goto("get_status:status")
                 ELSE Finish(Raised("RockBlockException", "Failed to get SBD status"))
              /\ UNCHANGED local
         [] pc = "get_status:status" ->
              IF SbdStatus(Line).ok
              THEN Goto("get_status:ok") /\ local' = SbdStatus(Line).value
              ELSE /\ Finish(Raised(SbdStatus(Line).exc, "SbdStatus"))
                   /\ UNCHANGED local
         [] pc = "get_status:ok" ->
              /\ IF Line = "OK"
                 THEN Finish(Returned(<<"SbdStatus", local>>))
                 ELSE Finish(Raised("RockBlockException", "Failed to get SBD status"))
              /\ UNCHANGED local
    /\ UNCHANGED <<s, stale, _imei, _modem, op, cmd, message, retry, written, sleeps>>
    /\ UNCHANGED at_disconnect

(* ---------------------------- specification ---------------------------- *)
Init ==
    /\ s = "None"
    /\ _imei = None
    /\ _modem = None
    /\ rx = <<>>
    /\ pc = "idle"
    /\ op = ""
    /\ cmd = ""
    /\ message = ""
    /\ retry = 0
    /\ local = ""
    /\ written = <<>>
    /\ got = <<>>
    /\ sleeps = 0
    /\ polls = 0
    /\ stale = 0
    /\ at_disconnect = [imei |-> None, modem |-> None]
    /\ outcome = NoOutcome

Next ==
    \/ read_next
    \/ connect
    \/ check_serial_connection
    \/ check_serial_connection_resume
    \/ disconnect
    \/ signal_quality
    \/ signal_quality_resume
    \/ imei
    \/ imei_resume
    \/ modem
    \/ modem_resume
    \/ get_iridium_datetime
    \/ get_iridium_datetime_resume
    \/ queue_text
    \/ send_text
    \/ queue_text_resume
    \/ queue_bytes
    \/ queue_bytes_resume
    \/ initiate_session
    \/ initiate_session_resume
    \/ read_bytes
    \/ read_bytes_output
    \/ read_bytes_resume
    \/ read_text
    \/ read_text_resume
    \/ set_radio_activity
    \/ set_radio_activity_resume
    \/ set_energy_used
    \/ set_energy_used_resume
    \/ get_energy_used
    \/ get_energy_used_resume
    \/ clear_buffer
    \/ clear_buffer_resume
    \/ get_status
    \/ get_status_resume

Spec == Init /\ [][Next]_vars

(* ------------------- the decoders as pure functions -------------------- *)
\* the +SBDIX payloads handed to SessionResponse, spaces already removed
SessionPayloads ==
    {ToString(mo) \o ",14," \o ToString(mt) \o ",3,20,0" :
        mo \in 0..MaxMoStatusCode, mt \in 0..MaxMtStatusCode}

DecodeInit ==
    /\ message \in SessionPayloads
    /\ s = "None"
    /\ _imei = None
    /\ _modem = None
    /\ rx = <<>>
    /\ pc = "idle"
    /\ op = ""
    /\ cmd = ""
    /\ retry = 0
    /\ local = ""
    /\ written = <<>>
    /\ got = <<>>
    /\ sleeps = 0
    /\ polls = 0
    /\ stale = 0
    /\ at_disconnect = [imei |-> None, modem |-> None]
    /\ outcome = NoOutcome

\* SessionResponse(message)
SessionResponse__init__ ==
    /\ op = ""
    /\ op' = "SessionResponse"
    /\ LET r == SessionResponse(message)
       IN  /\ local' = IF r.ok THEN r.value ELSE ""
           /\ outcome' = IF r.ok THEN Returned(<<"SessionResponse", r.value>>)
                         ELSE Raised(r.exc, "SessionResponse")
    /\ UNCHANGED <<s, _imei, _modem, rx, pc, cmd, message, retry, written, got,
                   sleeps, polls, stale>>
    /\ UNCHANGED at_disconnect

\* a SessionResponse object has been built
HasSessionResponse == op # "" /\ SessionResponse(message).ok

\* SessionResponse.mo_status
mo_status ==
    /\ HasSessionResponse
    /\ op' = "mo_status"
    /\ outcome' = Ending(_get_status_message(local.mo_status_code, TRUE))
    /\ UNCHANGED <<s, _imei, _modem, rx, pc, cmd, message, retry, local, written,
                   got, sleeps, polls, stale>>
    /\ UNCHANGED at_disconnect

\* SessionResponse.mt_status
mt_status ==
    /\ HasSessionResponse
    /\ op' = "mt_status"
    /\ outcome' = Ending(_get_status_message(local.mt_status_code, FALSE))
    /\ UNCHANGED <<s, _imei, _modem, rx, pc, cmd, message, retry, local, written,
                   got, sleeps, polls, stale>>
    /\ UNCHANGED at_disconnect

\* SessionResponse.mo_success
mo_success ==
    /\ HasSessionResponse
    /\ op' = "mo_success"
    /\ outcome' = Returned(PyBool(local.mo_status_code < 5))
    /\ UNCHANGED <<s, _imei, _modem, rx, pc, cmd, message, retry, local, written,
                   got, sleeps, polls, stale>>
    /\ UNCHANGED at_disconnect

DecodeNext ==
    \/ SessionResponse__init__
    \/ mo_status
    \/ mt_status
    \/ mo_success

DecodeSpec == DecodeInit /\ [][DecodeNext]_vars

(* ------------------------------- claims -------------------------------- *)
\* the call that ran last has ended
Ended(name) == pc = "idle" /\ op = name

\* how often the call wrote the command line
Count(command) ==
    Cardinality({i \in 1..Len(written) : written[i].text = command \o "\r"})

\* the payload of a "<label> <payload>" line
PayloadOf(line) == IF Len(split1(line, " ")) = 2 THEN split1(line, " ")[2] ELSE ""

\* the replies get_iridium_datetime has taken for 'no network service': each
\* such attempt reads three lines, the reply being the second
NoServiceReplies ==
    {k \in 1..Len(got) : k % 3 = 2 /\ PayloadOf(got[k]) = "no network service"}

\* C1 as stated: get_iridium_datetime with the default budget never writes
\* more than 5 AT-MSSTM commands, and once 5 replies said 'no network
\* service' it has failed with RockBlockSignalException at that point.
C1_AtMostFiveCommands ==
    op = "get_iridium_datetime" =>
        /\ Count("AT-MSSTM") <= DefaultRetry
        /\ (Cardinality(NoServiceReplies) >= DefaultRetry
            /\ Len(got) >= 3 * DefaultRetry) =>
               /\ pc = "idle"
               /\ outcome.exc = "RockBlockSignalException"

\* C1 amended: get_iridium_datetime with the default budget writes at most
\* 6 AT-MSSTM commands, the first attempt and 5 retries; it sleeps once per
\* retry; it raises RockBlockSignalException exactly when the 6th reply in a
\* row says 'no network service', having slept 5 times, and writes nothing
\* after that.
C1_FirstAttemptPlusFiveRetries ==
    op = "get_iridium_datetime" =>
        /\ Count("AT-MSSTM") <= DefaultRetry + 1
        /\ Len(written) = Count("AT-MSSTM")
        /\ s = "open" => sleeps = Len(written) - 1
        /\ outcome.exc = "RockBlockSignalException" =>
               /\ Cardinality(NoServiceReplies) = DefaultRetry + 1
               /\ Len(got) = 3 * (DefaultRetry + 1)
               /\ Count("AT-MSSTM") = DefaultRetry + 1
               /\ sleeps = DefaultRetry
        /\ (Cardinality(NoServiceReplies) = DefaultRetry + 1
            /\ Len(got) = 3 * (DefaultRetry + 1)) =>
               /\ pc = "idle"
               /\ outcome.exc = "RockBlockSignalException"

C1_Witness ==
    /\ Ended("get_iridium_datetime")
    /\ outcome.exc = "RockBlockSignalException"
    /\ Count("AT-MSSTM") = DefaultRetry + 1
    /\ sleeps = DefaultRetry

\* the read of a waiting call finds nothing: the transport timed out
TimedOut == Reading /\ pc # "read_bytes:output" /\ rx = <<>>

\* C2 as stated: when the transport's read times out without a line,
\* read_next fails with an error instead of waiting further.
C2_TimeoutFails ==
    [][TimedOut => (pc' = "idle" /\ outcome'.kind = "raise")]_vars

\* C2 amended: read_next ends only by returning a non-empty line.  After an
\* empty read, a timeout or a blank line, it reads again: the call neither
\* returns nor fails, and it has read or written nothing more.
C2_WaitsForNonEmptyLine ==
    /\ [](\A i \in 1..Len(got) : (op = "read_bytes" /\ i = 1) \/ got[i] # "")
    /\ [][(Reading /\ pc # "read_bytes:output" /\ _read(rx) = "") =>
             /\ pc' = pc
             /\ outcome' = outcome
             /\ got' = got
             /\ written' = written
             /\ polls' = polls + 1]_vars

C2_Witness == TimedOut /\ polls >= 2 /\ outcome.kind = "none"

\* the operations that send a command
CommandOperations ==
    {"signal_quality", "imei", "modem", "get_iridium_datetime", "queue_text",
     "queue_bytes", "initiate_session", "read_bytes", "read_text",
     "set_radio_activity", "set_energy_used", "get_energy_used", "clear_buffer",
     "get_status"}

\* the command line the call wrote first, without its carriage return
FirstCommand == SubSeq(written[1].text, 1, Len(written[1].text) - 1)

\* the first line the call read is not the command it sent
EchoMismatch == written # <<>> /\ got # <<>> /\ got[1] # FirstCommand

\* C3: every operation that sends a command checks that the first line
\* read equals the command, and reads and returns nothing more when it does
\* not.
C3_EveryOperationChecksEcho ==
    (op \in CommandOperations /\ EchoMismatch) =>
        /\ Len(got) = 1
        /\ outcome.kind # "return"

\* C4 as stated: every operation other than connect that is invoked while
\* no connection is open fails.
C4_FailsWithoutConnection ==
    (pc = "idle" /\ s = "None" /\ op \notin {"", "connect", "disconnect"}) =>
        outcome.kind = "raise"

\* C4 amended: an operation other than connect that is invoked while no
\* connection is open reads and writes nothing; it fails with
\* AttributeError at its first use of the transport, except for the calls
\* that use no transport: imei and modem return a cached value,
\* check_serial_connection returns False, queue_text returns False for a
\* message longer than 120 and send_text raises RockBlockException for it.
C4_WithoutConnection ==
    /\ s = "None" => (pc = "idle" /\ rx = <<>>)
    /\ (pc = "idle" /\ s = "None" /\ op \notin {"", "connect", "disconnect"}) =>
           /\ written = <<>>
           /\ got = <<>>
           /\ CASE op = "check_serial_connection" ->
                     outcome = Returned(PyBool(FALSE))
                [] op = "imei" /\ _imei # None ->
                     outcome = Returned(PyStr(_imei[1]))
                [] op = "modem" /\ _modem # None ->
                     outcome = Returned(PyStr(_modem[1]))
                [] op = "queue_text" /\ Len(message) > MaxTextLen ->
                     outcome = Returned(PyBool(FALSE))
                [] op = "send_text" /\ Len(message) > MaxTextLen ->
                     outcome.exc = "RockBlockException"
                [] OTHER ->
                     outcome.exc = "AttributeError"

C4_Witness ==
    /\ Ended("imei")
    /\ s = "None"
    /\ _imei # None
    /\ outcome.kind = "return"

\* C5: on an open connection queue_bytes rejects a message shorter than 1
\* or longer than 340 with RockBlockException before it writes or reads
\* anything.
C5_RejectsLengthOutOfRange ==
    (op = "queue_bytes" /\ s = "open"
     /\ (Len(message) < MinBytesLen \/ Len(message) > MaxBytesLen)) =>
        /\ written = <<>>
        /\ got = <<>>
        /\ pc = "idle"
        /\ outcome.exc = "RockBlockException"

\* C6: on an open connection queue_text writes nothing and returns False
\* (no exception) for a message of more than 120 bytes, and writes exactly
\* one AT+SBDWT=<msg> command for a message of at most 120 bytes.
C6_TextLengthInBytes ==
    (op = "queue_text" /\ s = "open") =>
        IF Len(encode(message)) > MaxTextLen
        THEN /\ written = <<>>
             /\ pc = "idle"
             /\ outcome = Returned(PyBool(FALSE))
        ELSE /\ Len(written) = 1
             /\ Count("AT+SBDWT=" \o message) = 1

\* C7: send_text writes AT+SBDIX only after it has written AT+SBDWT=<msg>
\* and read its echo and OK; when queue_text rejects the message or fails,
\* no AT+SBDIX is written and send_text fails with that failure.
C7_SessionOnlyAfterQueuedText ==
    op = "send_text" =>
        /\ Count("AT+SBDIX") <= 1
        /\ Count("AT+SBDIX") = 1 =>
               /\ Len(message) <= MaxTextLen
               /\ Len(written) = 2
               /\ written[1].text = "AT+SBDWT=" \o message \o "\r"
               /\ written[2].text = "AT+SBDIX\r"
               /\ Len(got) >= 2
               /\ got[1] = "AT+SBDWT=" \o message
               /\ got[2] = "OK"
        /\ (pc = "idle" /\ Count("AT+SBDIX") = 0) =>
               /\ outcome.kind = "raise"
               /\ Len(message) > MaxTextLen =>
                      /\ written = <<>>
                      /\ outcome.exc = "RockBlockException"
               /\ (Len(message) <= MaxTextLen /\ s = "open") =>
                      /\ outcome = Raised("RockBlockException", "Exception queueing text")
                      /\ \/ Len(got) = 1 /\ got[1] # "AT+SBDWT=" \o message
                         \/ Len(got) = 2 /\ got[2] # "OK"

C7_Witness ==
    /\ Ended("send_text")
    /\ Count("AT+SBDIX") = 1
    /\ outcome.kind = "return"

\* C8: once queue_bytes has read READY for a message of 1 to 340
\* characters, it has written the message followed by the high and the low
\* byte of (sum of the character values mod 65536).
C8_ChecksumModulo65536 ==
    (/\ op = "queue_bytes"
     /\ Len(message) >= MinBytesLen
     /\ Len(message) <= MaxBytesLen
     /\ Len(got) >= 2
     /\ got[1] = cmd
     /\ got[2] = "READY") =>
        /\ Len(written) = 2
        /\ written[2].text = message
        /\ written[2].raw = <<(checksum(message) % 65536) \div 256,
                               checksum(message) % 256>>

\* C9 as stated: connect raises RockBlockException when the transport
\* cannot be opened and when the handshake fails; it returns only after the
\* echo AT and then OK.
C9_FailedHandshakeRaises ==
    Ended("connect") =>
        \/ outcome = Returned(PyBool(TRUE)) /\ got = <<"AT", "OK">>
        \/ outcome.exc = "RockBlockException"

\* C9 amended: connect raises RockBlockException only when the transport
\* cannot be opened.  When the handshake fails, the line after AT not being
\* the echo or the next line not being OK, it returns False with the
\* transport left open; it returns True after the echo AT and then OK.
C9_ConnectOutcomes ==
    Ended("connect") =>
        \/ /\ outcome = Raised("RockBlockException", "SerialException")
           /\ written = <<>>
           /\ got = <<>>
        \/ /\ outcome = Returned(PyBool(TRUE))
           /\ got = <<"AT", "OK">>
           /\ s = "open"
        \/ /\ outcome = Returned(PyBool(FALSE))
           /\ s = "open"
           /\ \/ Len(got) = 1 /\ got[1] # "AT"
              \/ Len(got) = 2 /\ got[1] = "AT" /\ got[2] # "OK"

C9_Witness ==
    /\ Ended("connect")
    /\ outcome = Returned(PyBool(FALSE))
    /\ Len(got) = 2

\* C10: when the first two replies to AT-MSSTM say 'no network service'
\* and the third carries the ticks 1a2B, get_iridium_datetime has returned
\* IRIDIUM_EPOCH + 0x1a2B * 90 ms (602910 ms), having written exactly 3
\* AT-MSSTM commands and slept exactly twice, and reads and writes nothing
\* after that reply.
C10_ServiceOnThirdAttempt ==
    (/\ op = "get_iridium_datetime"
     /\ Len(got) >= 8
     /\ {2, 5} \subseteq NoServiceReplies
     /\ PayloadOf(got[8]) = "1a2B") =>
        /\ pc = "idle"
        /\ outcome = Returned(<<"datetime", 602910>>)
        /\ Len(got) = 8
        /\ Len(written) = 3
        /\ Count("AT-MSSTM") = 3
        /\ sleeps = 2

C10_Witness ==
    /\ Ended("get_iridium_datetime")
    /\ Len(got) = 8
    /\ {2, 5} \subseteq NoServiceReplies
    /\ outcome.kind = "return"

\* the attempts of get_iridium_datetime whose echo line was not the command
BadEchoAttempts ==
    {k \in 1..Len(got) : k % 3 = 1 /\ got[k] # "AT-MSSTM"}

\* C11: RockBlockSignalException is raised only by get_iridium_datetime,
\* only with the retry budget used up and on a 'no network service' reply
\* whose echo matched; an echo mismatch on any attempt, first or retry, ends
\* the call at once with the plain RockBlockException.
C11_SignalExceptionOnlyOnExhaustedBudget ==
    /\ outcome.exc = "RockBlockSignalException" =>
           /\ Ended("get_iridium_datetime")
           /\ retry = 0
           /\ sleeps = DefaultRetry
           /\ BadEchoAttempts = {}
           /\ Len(got) >= 3
           /\ got[Len(got) - 2] = "AT-MSSTM"
           /\ PayloadOf(got[Len(got) - 1]) = "no network service"
    /\ (op = "get_iridium_datetime" /\ BadEchoAttempts # {}) =>
           /\ pc = "idle"
           /\ BadEchoAttempts = {Len(got)}
           /\ outcome = Raised("RockBlockException",
                               "Exception getting system time, unexpected Serial state")

C11_Witness ==
    /\ Ended("get_iridium_datetime")
    /\ BadEchoAttempts = {4}
    /\ NoServiceReplies = {2}
    /\ outcome.exc = "RockBlockException"

\* the value a cache holds
Cached(cache) == PyStr(cache[1])

\* C12: once imei (modem) has returned a value it is cached; the cache
\* never changes afterwards, whatever operation runs; and every later read
\* of imei (modem) ends at once with the cached value, with nothing written
\* and nothing read.
C12_CachedAfterFirstSuccess ==
    /\ [](\A name \in {"imei", "modem"} :
              (Ended(name) /\ outcome.kind = "return" /\ outcome.val # PyNone) =>
                  LET cache == IF name = "imei" THEN _imei ELSE _modem
                  IN  cache # None /\ outcome.val = Cached(cache))
    /\ [][/\ _imei # None => _imei' = _imei
          /\ _modem # None => _modem' = _modem
          /\ (pc = "idle" /\ op' = "imei" /\ _imei # None) =>
                 /\ pc' = "idle"
                 /\ outcome' = Returned(Cached(_imei))
                 /\ written' = <<>>
                 /\ got' = <<>>
                 /\ rx' = rx
          /\ (pc = "idle" /\ op' = "modem" /\ _modem # None) =>
                 /\ pc' = "idle"
                 /\ outcome' = Returned(Cached(_modem))
                 /\ written' = <<>>
                 /\ got' = <<>>
                 /\ rx' = rx]_vars

C12_Witness ==
    /\ Ended("imei")
    /\ s = "open"
    /\ _imei # None
    /\ _modem # None
    /\ written = <<>>
    /\ got = <<>>
    /\ outcome = Returned(Cached(_imei))

\* C13: when the exchange of imei (modem) is not 'echo, value line, OK',
\* the echo not matching or the line after the value not being OK, the call
\* fails with RockBlockException, returns no value and caches nothing.
C13_BadExchangeRaises ==
    \A name \in {"imei", "modem"} :
        (/\ Ended(name)
         /\ written # <<>>
         /\ \/ EchoMismatch
            \/ Len(got) < 3
            \/ got[3] # "OK") =>
            /\ outcome.exc = "RockBlockException"
            /\ (IF name = "imei" THEN _imei ELSE _modem) = None

\* the comma-separated fields of the "+SBDIX: ..." line initiate_session read
SbdixFields(line) == split(split(RemoveSpaces(line), ":")[2], ",")

\* initiate_session has read its echo and an "+SBDIX: ..." reply line
SbdixReplyRead ==
    /\ op = "initiate_session"
    /\ Len(got) >= 2
    /\ got[1] = "AT+SBDIX"
    /\ Len(split(RemoveSpaces(got[2]), ":")) = 2
    /\ split(RemoveSpaces(got[2]), ":")[1] = "+SBDIX"

\* the positions of the fields SessionResponse converts with int()
IntegerFields == {1, 3, 5, 6}

\* C14: when the +SBDIX payload does not have exactly 6 comma-separated
\* fields, or one of its integer fields is not numeric, decoding fails:
\* initiate_session ends with an exception, having built no SessionResponse
\* and returning no result.
C14_MalformedPayloadFails ==
    (/\ SbdixReplyRead
     /\ \/ Len(SbdixFields(got[2])) # 6
        \/ \E i \in IntegerFields :
               /\ i <= Len(SbdixFields(got[2]))
               /\ ~IsInt(SbdixFields(got[2])[i])) =>
        /\ pc = "idle"
        /\ outcome.kind = "raise"
        /\ local = ""

\* C15: mo_status never raises: it returns the table's string for a mapped
\* MO status code and 'Failure (reserved)' for every unmapped one.
C15_MoStatusNeverRaises ==
    op = "mo_status" =>
        outcome = Returned(PyStr(
            IF local.mo_status_code \in DOMAIN MO_STATUS_CODES
            THEN MO_STATUS_CODES[local.mo_status_code]
            ELSE "Failure (reserved)"))

\* C16: an +SBDIX payload whose MT status code is not in the MT table
\* {0, 1, 2} is a decode error: initiate_session ends with an exception,
\* having built no SessionResponse from it.
C16_MtStatusOutsideTableFails ==
    (/\ SbdixReplyRead
     /\ Len(SbdixFields(got[2])) >= 3
     /\ IsInt(SbdixFields(got[2])[3])
     /\ int(SbdixFields(got[2])[3]) \notin DOMAIN MT_STATUS_CODES) =>
        /\ pc = "idle"
        /\ outcome.kind = "raise"

\* C17: on an open connection clear_buffer writes exactly one command,
\* AT+SBDD0, AT+SBDD1 or AT+SBDD2; it returns only after reading, in order,
\* the echo of that command, '0' and 'OK', and raises RockBlockException
\* after any other sequence of lines.
C17_ClearBufferExchange ==
    (op = "clear_buffer" /\ s = "open") =>
        /\ Len(written) = 1
        /\ written[1].raw = <<>>
        /\ written[1].text \in {"AT+SBDD0\r", "AT+SBDD1\r", "AT+SBDD2\r"}
        /\ pc = "idle" =>
               /\ got # <<>>
               /\ IF got = <<FirstCommand, "0", "OK">>
                  THEN outcome = Returned(PyNone)
                  ELSE outcome = Raised("RockBlockException", "Failed to clear buffer")

C17_Witness ==
    /\ Ended("clear_buffer")
    /\ written = <<write_line("AT+SBDD2")>>
    /\ got = <<"AT+SBDD2", "0", "OK">>
    /\ outcome = Returned(PyNone)

\* the position of the result line among the lines queue_bytes and
\* clear_buffer read: after the echo, and after READY for queue_bytes
ResultAt == IF op = "queue_bytes" THEN 3 ELSE 2

\* C18: when queue_bytes or clear_buffer has ended after reading a result
\* line other than '0', it has also read the line that follows it: no line
\* of the modem's answer is left unread for the next operation.
C18_ResultFullyConsumed ==
    (/\ op \in {"queue_bytes", "clear_buffer"}
     /\ pc = "idle"
     /\ Len(got) >= ResultAt
     /\ got[1] = FirstCommand
     /\ op = "queue_bytes" => got[2] = "READY"
     /\ got[ResultAt] # "0") =>
        rx = <<>>

\* C19: when get_iridium_datetime has returned the time or raised
\* RockBlockSignalException, the modem having reported no error, every
\* attempt has read the same number of lines and no line of the modem's
\* answers to AT-MSSTM is left unread.
C19_NoLineLeftUnread ==
    (/\ Ended("get_iridium_datetime")
     /\ \A i \in 1..Len(rx) : rx[i] # ErrorLine
     /\ \/ outcome.kind = "return"
        \/ outcome.exc = "RockBlockSignalException") =>
        /\ \E n \in 1..3 : Len(got) = n * Len(written)
        /\ rx = <<>>

\* C20: a disconnect leaves the cached IMEI and modem model as they were,
\* so that on a later connection imei (modem) returns the value that was
\* cached when the connection was closed, with nothing written or read.
C20_CachesSurviveDisconnect ==
    /\ [][(s = "open" /\ s' = "None") =>
              (_imei' = _imei /\ _modem' = _modem)]_vars
    /\ []((Ended("imei") /\ s = "open" /\ at_disconnect.imei # None) =>
              /\ written = <<>>
              /\ got = <<>>
              /\ outcome = Returned(Cached(at_disconnect.imei)))
    /\ []((Ended("modem") /\ s = "open" /\ at_disconnect.modem # None) =>
              /\ written = <<>>
              /\ got = <<>>
              /\ outcome = Returned(Cached(at_disconnect.modem)))

C20_Witness ==
    /\ Ended("modem")
    /\ s = "open"
    /\ at_disconnect.modem # None
    /\ at_disconnect.imei # None
    /\ written = <<>>
    /\ outcome = Returned(Cached(at_disconnect.modem))
====
